---------------------------- MODULE Spec2Model ----------------------------
(***************************************************************************)
(* Model of src/extract.py: the fetcher that lists the closed pull         *)
(* requests of a repository page by page, keeps the merged ones inside an  *)
(* optional date window and writes them to a JSON file.                    *)
(*                                                                         *)
(* Text is modelled as a sequence of one-character strings, so that the    *)
(* parsing the script does (split, strip, find, slice) is computed rather  *)
(* than assumed.  Python's None is the one-element tuple <<"None">>, which *)
(* no text, date or timestamp of the model equals.                         *)
(***************************************************************************)
EXTENDS Integers, Sequences, FiniteSets, TLC

None == <<"None">>

\* ------------------------------------------------------------------ bounds

\* number of distinct page URLs the remote serves in the pagination scenarios
NumUrls == 3
\* longest page (number of pull requests) in the date scenarios
MaxPageLen == 2
\* most consecutive transient failures the remote gives one request
MaxFails == 6
\* most entries of a Link header in the header scenarios
MaxEntries == 2

\* pages of one run the model counts and records (pages_scanned is an
\* unbounded Python int): more than the remote has URLs
MaxScan == NumUrls + 1

\* ------------------------------------------------------- program constants

\* Retry(total=5)
RetryTotal == 5
\* timedelta(days=1), in seconds
SecondsPerDay == 86400
\* timedelta(microseconds=1) is one millionth of a second
MicrosPerSecond == 1000000

\* Retry(status_forcelist=[429, 500, 502, 503, 504])
status_forcelist == {429, 500, 502, 503, 504}

\* the query parameters of the first request
Params ==
    << <<"state", "closed">>, <<"per_page", "100">>, <<"page", "1">>,
       <<"sort", "updated">>, <<"direction", "desc">> >>

\* ------------------------------------------------------------ text helpers

Digits == <<"0", "1", "2", "3", "4", "5", "6", "7", "8", "9">>

\* the URL of page i of the list: "h:<i>" stands for https://api.github.com/...
Url(i) == <<"h", ":", Digits[i + 1]>>

\* base_url
BaseUrl == Url(0)

\* the text rel="next"
RelNextText == <<"r", "e", "l", "=", "\"", "n", "e", "x", "t", "\"">>

\* the 0-based index of the first ch in p at or after the 1-based i, -1 when
\* there is none
RECURSIVE FindFrom(_, _, _)
FindFrom(p, ch, i) ==
    IF i > Len(p) THEN -1
    ELSE IF p[i] = ch THEN i - 1
    ELSE FindFrom(p, ch, i + 1)

\* str.find(ch)
Find(p, ch) == FindFrom(p, ch, 1)

\* needle in p
Contains(p, needle) ==
    \E i \in 1..(Len(p) - Len(needle) + 1) :
        SubSeq(p, i, i + Len(needle) - 1) = needle

\* p[start:end] for start >= 0; a negative end counts from the end of p
Slice(p, start, end) ==
    LET e == IF end < 0
             THEN (IF Len(p) + end < 0 THEN 0 ELSE Len(p) + end)
             ELSE (IF end > Len(p) THEN Len(p) ELSE end)
    IN  IF start >= e THEN << >> ELSE SubSeq(p, start + 1, e)

\* str.strip() for the blank
RECURSIVE Strip(_)
Strip(p) ==
    IF p = << >> THEN << >>
    ELSE IF Head(p) = " " THEN Strip(Tail(p))
    ELSE IF p[Len(p)] = " " THEN Strip(SubSeq(p, 1, Len(p) - 1))
    ELSE p

\* str.split(sep) from the 1-based i on: the parts between the separators,
\* the empty ones kept
RECURSIVE SplitFrom(_, _, _)
SplitFrom(s, sep, i) ==
    CHOOSE r \in { IF k < 0 THEN <<SubSeq(s, i, Len(s))>>
                   ELSE <<SubSeq(s, i, k)>> \o SplitFrom(s, sep, k + 2) :
                   k \in {FindFrom(s, sep, i)} } : TRUE

\* str.split(sep)
Split(s, sep) == SplitFrom(s, sep, 1)

\* ---------------------------------------------------------------- next_link

\* the for loop of next_link over the stripped parts
RECURSIVE NextLinkLoop(_, _)
NextLinkLoop(parts, i) ==
    IF i > Len(parts) THEN None
    ELSE IF Contains(parts[i], RelNextText)
         THEN Slice(parts[i], Find(parts[i], "<") + 1, Find(parts[i], ">"))
         ELSE NextLinkLoop(parts, i + 1)

\* [p.strip() for p in raw]
StripAll(raw) == [i \in 1..Len(raw) |-> Strip(raw[i])]

\* next_link(resp), on the text of the Link header ("" when there is none)
next_link(link) ==
    IF link = << >> THEN None
    ELSE CHOOSE r \in { NextLinkLoop(parts, 1) :
                        parts \in {StripAll(Split(link, ","))} } : TRUE

\* resp.headers.get("Link", "")
HeaderGet(h) == IF h = None THEN << >> ELSE h

\* Python truth of a text or None: not x
Falsy(x) == x = None \/ x = << >>

\* ------------------------------------------------------------------- dates

IsLeap(y) == y % 4 = 0 /\ (y % 100 # 0 \/ y % 400 = 0)

DaysInMonth(y, m) ==
    IF m = 2 THEN (IF IsLeap(y) THEN 29 ELSE 28)
    ELSE IF m \in {4, 6, 9, 11} THEN 30 ELSE 31

RECURSIVE DaysBeforeMonth(_, _)
DaysBeforeMonth(y, m) ==
    IF m = 1 THEN 0 ELSE DaysBeforeMonth(y, m - 1) + DaysInMonth(y, m - 1)

DaysBeforeYear(y) ==
    (y - 1) * 365 + ((y - 1) \div 4) - ((y - 1) \div 100) + ((y - 1) \div 400)

\* the proleptic Gregorian ordinal of a date <<y, m, d>>
Ymd2Ord(d) == DaysBeforeYear(d[1]) + DaysBeforeMonth(d[1], d[2]) + d[3]

\* a datetime is <<days, seconds, microseconds>>; adding a timedelta carries
\* microseconds into seconds and seconds into days
DtAdd(dt, days, secs, us) ==
    LET u == dt[3] + us
        s == dt[2] + secs + (u \div MicrosPerSecond)
    IN  <<dt[1] + days + (s \div SecondsPerDay), s % SecondsPerDay, u % MicrosPerSecond>>

\* a < b on datetimes
DtLess(a, b) ==
    \/ a[1] < b[1]
    \/ a[1] = b[1] /\ a[2] < b[2]
    \/ a[1] = b[1] /\ a[2] = b[2] /\ a[3] < b[3]

\* to_utc_date with the end of the day forgotten: the end bound is midnight
to_utc_date_MidnightEnd(d, end) ==
    IF Falsy(d) THEN None ELSE <<Ymd2Ord(d), 0, 0>>

\* to_utc_date(d, end): d is None, "" or the date <<y, m, d>> of a YYYY-MM-DD text
to_utc_date(d, end) ==
    IF Falsy(d) THEN None
    ELSE LET base == <<Ymd2Ord(d), 0, 0>>
         IN  IF end THEN DtAdd(DtAdd(base, 1, 0, 0), 0, 0, -1) ELSE base

\* iso_to_dt_utc(iso): iso is the fields <<y, m, d, H, M, S>> of a
\* YYYY-MM-DDTHH:MM:SSZ text
iso_to_dt_utc(iso) ==
    <<Ymd2Ord(<<iso[1], iso[2], iso[3]>>), iso[4] * 3600 + iso[5] * 60 + iso[6], 0>>


\* ------------------------------------------------------------------- state

VARIABLES
    token,          \* os.getenv("GITHUB_TOKEN"): "<unset>" is None
    start_date,     \* args.start_date
    end_date,       \* args.end_date
    remote,         \* the remote: what it answers for each URL it serves
    pc,             \* where main() is
    exit_status,    \* the process's exit status, -1 while it runs
    start_dt,       \* main's start_dt
    end_dt,         \* main's end_dt
    url,            \* main's url
    params,         \* main's params
    resp,           \* main's resp: the response session.get returned
    nxt,            \* main's nxt
    retry_total,    \* Retry.total of the request in progress
    attempts,       \* HTTP requests sent so far for the session.get in progress
    merged_kept,    \* main's merged_kept
    pages_scanned,  \* main's pages_scanned (counted up to MaxScan)
    file,           \* args.out: whether the file exists, and its content
    run,            \* 1: the first run of the script, 2: the run repeated
    first,          \* what the first run left: its exit status, file and requests
    reqlog,         \* history: the <<url, params>> of each session.get call
    scanned         \* history: the records of the pages scanned, in order

vars == <<token, start_date, end_date, remote, pc, exit_status, start_dt, end_dt,
          url, params, resp, nxt, retry_total, attempts, merged_kept,
          pages_scanned, file, run, first, reqlog, scanned>>

env == <<token, start_date, end_date, remote>>

\* ------------------------------------------------------------- the remote

RelNext == <<"n", "e", "x", "t">>
RelPrev == <<"p", "r", "e", "v">>
RelLast == <<"l", "a", "s", "t">>

\* one entry of a Link header: <url>; rel="..."
FormatEntry(e) ==
    <<"<">> \o e.url \o <<">", ";", " ", "r", "e", "l", "=", "\"">> \o e.rel \o <<"\"">>

\* a Link header: its entries joined by ", "
RECURSIVE FormatLink(_)
FormatLink(es) ==
    IF Len(es) = 1 THEN FormatEntry(es[1])
    ELSE FormatEntry(es[1]) \o <<",", " ">> \o FormatLink(Tail(es))

Entry(u, r) == [url |-> u, rel |-> r]

\* a pull request of the list: its number and merged_at (None while unmerged)
PR(n, m) == [number |-> n, merged_at |-> m]

\* what the remote holds for one URL: it answers failStatus to the first `fails`
\* requests of a session.get, then status with the page and the Link header
\* (entries: the entries the header was written from)
Served(f, fs, st, page, es, h) ==
    [fails |-> f, failStatus |-> fs, status |-> st, prs |-> page,
     entries |-> es, link |-> h]

Ok(page, es) ==
    Served(0, 503, 200, page, es, IF es = << >> THEN None ELSE FormatLink(es))

NoResp == [status |-> 0, prs |-> << >>, entries |-> << >>, link |-> None]

\* the remote's answer to the (n+1)-th request of one session.get for u
Answer(u, n) ==
    IF u \notin DOMAIN remote
    THEN [status |-> 404, prs |-> << >>, entries |-> << >>, link |-> None]
    ELSE IF n < remote[u].fails
    THEN [status |-> remote[u].failStatus, prs |-> << >>, entries |-> << >>, link |-> None]
    ELSE [status |-> remote[u].status, prs |-> remote[u].prs,
          entries |-> remote[u].entries, link |-> remote[u].link]

\* requests sends nothing to a URL without a scheme: it raises MissingSchema
HasSchema(u) == Len(u) >= 2 /\ u[1] = "h" /\ u[2] = ":"

\* --------------------------------------------------------------- scenarios

D0131 == <<2025, 1, 31>>
D0201 == <<2025, 2, 1>>
D0215 == <<2025, 2, 15>>
D0228 == <<2025, 2, 28>>
D0301 == <<2025, 3, 1>>

Dates == {D0131, D0201, D0215, D0228, D0301}
Times == {<<0, 0, 0>>, <<23, 59, 59>>}
Stamps == {d \o t : d \in Dates, t \in Times}

UrlSet == {Url(i) : i \in 0..(NumUrls - 1)}

\* a URL with a comma in its query
CommaUrl == <<"h", ":", "1", ",", "2">>

PageA == <<PR(1, D0215 \o <<9, 5, 11>>), PR(2, None)>>
PageB == <<PR(3, D0228 \o <<23, 59, 59>>)>>

Scenario(r, s, e) == [remote |-> r, start |-> s, end |-> e]

\* one page, every mix of merge times around the window's two ends
DatePages ==
    UNION {{[i \in 1..n |-> PR(i, f[i])] : f \in [1..n -> Stamps \cup {None}]}
           : n \in 0..MaxPageLen}

DateScenarios ==
    {Scenario([u \in {BaseUrl} |-> Ok(page, << >>)], s, e) :
        page \in DatePages, s \in {None, D0201, D0215}, e \in {None, D0215, D0228}}

\* NumUrls pages.  The first has records and a next entry to any page
\* (itself, too); each other page the next entries lead to is empty or not, with
\* no Link header or with a next entry to any page (to itself or back, too); a
\* page no next entry leads to is never requested, and is left empty.

\* the page of URL i when it is not empty: even pages hold a record the window
\* keeps (the same one: the remote may repeat a pull request), odd pages none
PageOf(i) == IF i % 2 = 0 THEN PageA ELSE <<PR(2, None)>>

\* the Link header's entries of a page whose next page is n (-1: no header)
LinkEntries(n) ==
    IF n < 0 THEN << >> ELSE <<Entry(Url(n), RelNext), Entry(BaseUrl, RelLast)>>

PageChoices(i) ==
    {[page |-> p, next |-> n] :
        p \in IF i = 0 THEN {PageOf(i)} ELSE {<< >>, PageOf(i)},
        n \in IF i = 0 THEN 0..(NumUrls - 1) ELSE -1..(NumUrls - 1)}

\* the pages the next entries lead to from page i, in k steps at most
RECURSIVE Visited(_, _, _)
Visited(c, i, k) ==
    IF k = 0 \/ c[i].next < 0 THEN {i} ELSE {i} \cup Visited(c, c[i].next, k - 1)

PageLayouts ==
    {c \in [0..(NumUrls - 1) -> UNION {PageChoices(i) : i \in 0..(NumUrls - 1)}] :
        \A i \in 0..(NumUrls - 1) :
            /\ c[i] \in PageChoices(i)
            /\ i \notin Visited(c, 0, NumUrls) => c[i] = [page |-> << >>, next |-> -1]}

PageScenarios ==
    {Scenario([u \in UrlSet |->
                  LET i == CHOOSE j \in 0..(NumUrls - 1) : Url(j) = u
                  IN  Ok(c[i].page, LinkEntries(c[i].next))],
              D0201, D0228) : c \in PageLayouts}

\* two pages, each failing 0..MaxFails times before its final status
RetryChoices ==
    {[f |-> f, fs |-> fs, st |-> st] :
        f \in 0..MaxFails, fs \in {429, 503}, st \in {200, 204, 404}}

RetryScenarios ==
    {Scenario((Url(0) :> Served(a.f, a.fs, a.st, PageA, <<Entry(Url(1), RelNext)>>,
                                FormatLink(<<Entry(Url(1), RelNext)>>)))
              @@ (Url(1) :> Served(b.f, b.fs, b.st, PageB, << >>, None)),
              None, None) :
        a \in RetryChoices, b \in RetryChoices}

\* one page whose Link header has up to MaxEntries entries, in every order
HeaderEntries ==
    {Entry(u, r) : u \in {Url(1), CommaUrl}, r \in {RelNext, RelPrev, RelLast}}

EntryLists == UNION {[1..n -> HeaderEntries] : n \in 1..MaxEntries}

HeaderScenarios ==
    {Scenario((Url(0) :> Served(0, 503, 200, PageA, es, FormatLink(es)))
              @@ (Url(1) :> Ok(PageB, << >>)), None, None) : es \in EntryLists}
        \cup {Scenario((Url(0) :> Served(0, 503, 200, PageA, << >>, h))
                       @@ (Url(1) :> Ok(PageB, << >>)), None, None) :
                h \in {None, << >>}}

Scenarios == DateScenarios \cup PageScenarios \cup RetryScenarios \cup HeaderScenarios

\* the scenarios of the runs checked for termination: every pagination
\* scenario, the retry scenarios that fail never or always, and the header
\* scenarios of one entry
ChainScenarios ==
    PageScenarios
        \cup {sc \in RetryScenarios :
                 \A u \in DOMAIN sc.remote :
                    /\ sc.remote[u].fails \in {0, MaxFails}
                    /\ sc.remote[u].failStatus = 503
                    /\ sc.remote[u].status \in {200, 404}}
        \cup {sc \in HeaderScenarios : Len(sc.remote[BaseUrl].entries) = 1}


\* ------------------------------------------------------------- the script

Running == -1

NoFile == [exists |-> FALSE, content |-> << >>]

\* a token test that only sees the unset variable: token is None
MissingToken_NoneOnly(t) == t = "<unset>"

\* not token
MissingToken(t) == t \in {"<unset>", ""}

\* if not merged_at: continue
Unmerged(pr) == Falsy(pr.merged_at)

\* the start test with the comparison turned round
BeforeStart_Reversed(mdt, sdt) == sdt # None /\ DtLess(sdt, mdt)

\* if start_dt and mdt < start_dt: continue
BeforeStart(mdt, sdt) == sdt # None /\ DtLess(mdt, sdt)

\* if end_dt and mdt > end_dt: continue
AfterEnd(mdt, edt) == edt # None /\ DtLess(edt, mdt)

\* the loop skipping a pull request number merged_kept already holds
RECURSIVE FilterLoop_Dedup(_, _, _, _, _)
FilterLoop_Dedup(prs, i, kept, sdt, edt) ==
    IF i > Len(prs) THEN kept
    ELSE IF Unmerged(prs[i]) THEN FilterLoop_Dedup(prs, i + 1, kept, sdt, edt)
    ELSE LET mdt == iso_to_dt_utc(prs[i].merged_at)
         IN  IF BeforeStart(mdt, sdt) \/ AfterEnd(mdt, edt)
                \/ \E k \in 1..Len(kept) : kept[k].number = prs[i].number
             THEN FilterLoop_Dedup(prs, i + 1, kept, sdt, edt)
             ELSE FilterLoop_Dedup(prs, i + 1, Append(kept, prs[i]), sdt, edt)

\* the for loop over the page from its i-th record on: merged_kept after it
RECURSIVE FilterLoop(_, _, _, _, _)
FilterLoop(prs, i, kept, sdt, edt) ==
    IF i > Len(prs) THEN kept
    ELSE IF Unmerged(prs[i]) THEN FilterLoop(prs, i + 1, kept, sdt, edt)
    ELSE LET mdt == iso_to_dt_utc(prs[i].merged_at)
         IN  IF BeforeStart(mdt, sdt) THEN FilterLoop(prs, i + 1, kept, sdt, edt)
             ELSE IF AfterEnd(mdt, edt) THEN FilterLoop(prs, i + 1, kept, sdt, edt)
             ELSE FilterLoop(prs, i + 1, Append(kept, prs[i]), sdt, edt)

\* a status test that lets client errors through
FatalStatus_ServerOnly(st) == st >= 500

\* if resp.status_code != 200
FatalStatus(st) == st # 200

\* the break taken only when both hold
LoopBreaks_Both(n, prs) == Falsy(n) /\ prs = << >>

\* if not nxt or not prs: break
LoopBreaks(n, prs) == Falsy(n) \/ prs = << >>

\* the parameters sent again with the link
FollowRequest_KeepParams(n, p) == <<n, p>>

\* url, params = nxt, None
FollowRequest(n, p) == <<n, None>>

\* Retry.is_retry for a GET: the status is in status_forcelist
IsRetry(st) == st \in status_forcelist

\* a Retry that gives up when the count left reaches zero
IsExhausted_AtZero(total) == total <= 0

\* Retry.is_exhausted after Retry.increment: the count left fell below zero
IsExhausted(total) == total < 0

\* json.dump(merged_kept): each record as its key/value pairs, in order
JsonDump(kept) ==
    [i \in 1..Len(kept) |->
        << <<"number", kept[i].number>>, <<"merged_at", kept[i].merged_at>> >>]

\* the file opened with "a": the dump lands after what the file held
WriteOut_Append(old, kept) ==
    [exists |-> TRUE, content |-> old.content \o JsonDump(kept)]

\* open(out_path, "w") and json.dump: the file's new content
WriteOut(old, kept) == [exists |-> TRUE, content |-> JsonDump(kept)]

\* the state main() starts in, for a token and a scenario of the given sets
InitFrom(tokens, scs) ==
    /\ token \in tokens
    /\ \E sc \in scs :
          /\ remote = sc.remote
          /\ start_date = sc.start
          /\ end_date = sc.end
    /\ pc = "start"
    /\ exit_status = Running
    /\ start_dt = None
    /\ end_dt = None
    /\ url = None
    /\ params = None
    /\ resp = NoResp
    /\ nxt = None
    /\ retry_total = 0
    /\ attempts = 0
    /\ merged_kept = << >>
    /\ pages_scanned = 0
    /\ file = NoFile
    /\ run = 1
    /\ first = [status |-> Running, file |-> NoFile, log |-> << >>]
    /\ reqlog = << >>
    /\ scanned = << >>

\* every scenario with a token; without one the script never reads the rest
Init ==
    \/ InitFrom({"ghp"}, Scenarios)
    \/ InitFrom({"<unset>", ""}, HeaderScenarios)

InitChain ==
    \/ InitFrom({"ghp"}, ChainScenarios)
    \/ InitFrom({"<unset>", ""}, ChainScenarios \cap HeaderScenarios)

\* main, lines 75-78: no token, sys.exit(2)
ExitNoToken ==
    /\ pc = "start"
    /\ MissingToken(token)
    /\ pc' = "exit"
    /\ exit_status' = 2
    /\ UNCHANGED <<env, start_dt, end_dt, url, params, resp, nxt, retry_total,
                   attempts, merged_kept, pages_scanned, file, run, first,
                   reqlog, scanned>>

\* main, lines 80-100: the date bounds, the session, the first URL
Setup ==
    /\ pc = "start"
    /\ ~MissingToken(token)
    /\ start_dt' = to_utc_date(start_date, FALSE)
    /\ end_dt' = to_utc_date(end_date, TRUE)
    /\ url' = BaseUrl
    /\ params' = Params
    /\ merged_kept' = << >>
    /\ pages_scanned' = 0
    /\ pc' = "get"
    /\ UNCHANGED <<env, exit_status, resp, nxt, retry_total, attempts, file, run,
                   first, reqlog, scanned>>

\* main, line 102: session.get(url, params=params) starts with a fresh Retry
Get ==
    /\ pc = "get"
    /\ retry_total' = RetryTotal
    /\ attempts' = 0
    /\ reqlog' = IF Len(reqlog) < MaxScan THEN Append(reqlog, <<url, params>>) ELSE reqlog
    /\ pc' = "send"
    /\ UNCHANGED <<env, exit_status, start_dt, end_dt, url, params, resp, nxt,
                   merged_kept, pages_scanned, file, run, first, scanned>>

\* line 102: the URL has no scheme, requests raises and the script dies
SendInvalid ==
    /\ pc = "send"
    /\ ~HasSchema(url)
    /\ pc' = "exit"
    /\ exit_status' = 1
    /\ UNCHANGED <<env, start_dt, end_dt, url, params, resp, nxt, retry_total,
                   attempts, merged_kept, pages_scanned, file, run, first,
                   reqlog, scanned>>

\* line 102: one HTTP request; a status of the forcelist is retried while the
\* Retry is not exhausted
SendRetry ==
    /\ pc = "send"
    /\ HasSchema(url)
    /\ IsRetry(Answer(url, attempts).status)
    /\ ~IsExhausted(retry_total - 1)
    /\ attempts' = attempts + 1
    /\ retry_total' = retry_total - 1
    /\ UNCHANGED <<env, pc, exit_status, start_dt, end_dt, url, params, resp, nxt,
                   merged_kept, pages_scanned, file, run, first, reqlog, scanned>>

\* line 102: one HTTP request whose response session.get returns: any other
\* status, or a forcelist status with the Retry exhausted (raise_on_status=False)
SendReturn ==
    /\ pc = "send"
    /\ HasSchema(url)
    /\ LET r == Answer(url, attempts)
       IN  /\ IsRetry(r.status) => IsExhausted(retry_total - 1)
           /\ resp' = r
    /\ attempts' = attempts + 1
    /\ pc' = "resp"
    /\ UNCHANGED <<env, exit_status, start_dt, end_dt, url, params, nxt,
                   retry_total, merged_kept, pages_scanned, file, run, first,
                   reqlog, scanned>>

\* main, lines 103-105: not 200, sys.exit(1)
ExitHttpError ==
    /\ pc = "resp"
    /\ FatalStatus(resp.status)
    /\ pc' = "exit"
    /\ exit_status' = 1
    /\ UNCHANGED <<env, start_dt, end_dt, url, params, resp, nxt, retry_total,
                   attempts, merged_kept, pages_scanned, file, run, first,
                   reqlog, scanned>>

\* main, lines 107-122: the page is filtered into merged_kept and nxt is read
\* from the Link header.  The remote serves fewer than MaxScan URLs, so a run
\* that scans more pages is going round a cycle of next links and never ends:
\* the model follows it, counting and recording its first MaxScan pages only.
ScanPage ==
    /\ pc = "resp"
    /\ ~FatalStatus(resp.status)
    /\ merged_kept' = IF pages_scanned < MaxScan
                      THEN FilterLoop(resp.prs, 1, merged_kept, start_dt, end_dt)
                      ELSE merged_kept
    /\ pages_scanned' = IF pages_scanned < MaxScan THEN pages_scanned + 1 ELSE pages_scanned
    /\ scanned' = IF pages_scanned < MaxScan THEN scanned \o resp.prs ELSE scanned
    /\ nxt' = next_link(HeaderGet(resp.link))

\* main, lines 107-124: the last page, the loop breaks
LastPage ==
    /\ ScanPage
    /\ LoopBreaks(nxt', resp.prs)
    /\ pc' = "write"
    /\ UNCHANGED <<env, exit_status, start_dt, end_dt, url, params, resp,
                   retry_total, attempts, file, run, first, reqlog>>

\* main, lines 107-126: the next link is followed, without the parameters
FollowLink ==
    /\ ScanPage
    /\ ~LoopBreaks(nxt', resp.prs)
    /\ url' = FollowRequest(nxt', params)[1]
    /\ params' = FollowRequest(nxt', params)[2]
    /\ pc' = "get"
    /\ UNCHANGED <<env, exit_status, start_dt, end_dt, resp, retry_total,
                   attempts, file, run, first, reqlog>>

\* main, lines 128-137: the output file is written and the script ends
WriteFile ==
    /\ pc = "write"
    /\ file' = WriteOut(file, merged_kept)
    /\ pc' = "done"
    /\ exit_status' = 0
    /\ UNCHANGED <<env, start_dt, end_dt, url, params, resp, nxt, retry_total,
                   attempts, merged_kept, pages_scanned, run, first, reqlog,
                   scanned>>

Terminated == pc \in {"done", "exit"}

\* the script is run again, with the same arguments, against the same remote:
\* a new process, whose only inheritance is the file
Rerun ==
    /\ Terminated
    /\ run = 1
    /\ run' = 2
    /\ first' = [status |-> exit_status, file |-> file, log |-> reqlog]
    /\ pc' = "start"
    /\ exit_status' = Running
    /\ start_dt' = None
    /\ end_dt' = None
    /\ url' = None
    /\ params' = None
    /\ resp' = NoResp
    /\ nxt' = None
    /\ retry_total' = 0
    /\ attempts' = 0
    /\ merged_kept' = << >>
    /\ pages_scanned' = 0
    /\ reqlog' = << >>
    /\ scanned' = << >>
    /\ UNCHANGED <<env, file>>

Next ==
    \/ ExitNoToken
    \/ Setup
    \/ Get
    \/ SendInvalid
    \/ SendRetry
    \/ SendReturn
    \/ ExitHttpError
    \/ LastPage
    \/ FollowLink
    \/ WriteFile
    \/ Rerun

Spec == Init /\ [][Next]_vars

\* the script runs on until it ends: nothing else is scheduled
FairSpec == InitChain /\ [][Next]_vars /\ WF_vars(Next)


\* ------------------------------------------------------------------ claims

\* a <= b on tuples of numbers of one length, field by field from the left
RECURSIVE LexLeq(_, _)
LexLeq(a, b) ==
    IF a = << >> THEN TRUE
    ELSE IF Head(a) # Head(b) THEN Head(a) < Head(b)
    ELSE LexLeq(Tail(a), Tail(b))

\* the calendar date of a merge timestamp
DateOf(m) == SubSeq(m, 1, 3)

Range(q) == {q[i] : i \in 1..Len(q)}

\* C1: every record of merged_kept, and of the file written, has a merged_at
\* that is not None, on or after the start date when one is given and on or
\* before the end date when one is given.
C1_KeptMergedInRange ==
    /\ \A pr \in Range(merged_kept) :
          /\ pr.merged_at # None
          /\ start_date # None => LexLeq(start_date, DateOf(pr.merged_at))
          /\ end_date # None => LexLeq(DateOf(pr.merged_at), end_date)
    /\ \A i \in 1..Len(file.content) :
          LET m == file.content[i][2][2]
          IN  /\ m # None
              /\ start_date # None => LexLeq(start_date, DateOf(m))
              /\ end_date # None => LexLeq(DateOf(m), end_date)

\* C1's case: a run with both bounds given has written a file with a record in
\* it, having scanned a record it did not keep
C1_Witness ==
    /\ pc = "done"
    /\ start_date # None /\ end_date # None
    /\ Len(file.content) >= 1
    /\ Len(scanned) > Len(merged_kept)

\* the merge timestamp m lies from start 00:00:00 through end 23:59:59
InWindow(m) ==
    /\ start_date # None => LexLeq(start_date \o <<0, 0, 0>>, m)
    /\ end_date # None => LexLeq(m, end_date \o <<23, 59, 59>>)

\* C6: of the merged records on the pages scanned, exactly those merged from
\* 00:00:00 of the start date through 23:59:59 of the end date are kept.
C6_InclusiveDayBounds ==
    \A pr \in Range(scanned) :
        pr.merged_at # None =>
            (pr \in Range(merged_kept) <=> InWindow(pr.merged_at))

\* C6's case: with start 2025-02-01 and end 2025-02-28, a record merged one
\* second before the start is dropped and one merged at 23:59:59 of the end
\* date is kept
C6_Witness ==
    /\ pc = "done"
    /\ start_date = D0201 /\ end_date = D0228
    /\ scanned = <<PR(1, D0131 \o <<23, 59, 59>>), PR(2, D0228 \o <<23, 59, 59>>)>>
    /\ merged_kept = <<PR(2, D0228 \o <<23, 59, 59>>)>>

\* the filters of the loop body, on one record
PassesFilters(pr) ==
    /\ pr.merged_at # None
    /\ ~BeforeStart(iso_to_dt_utc(pr.merged_at), start_dt)
    /\ ~AfterEnd(iso_to_dt_utc(pr.merged_at), end_dt)

IsPrefix(a, b) == Len(a) <= Len(b) /\ SubSeq(b, 1, Len(a)) = a

\* C10: merged_kept is the records of the pages scanned that pass the filters,
\* in the order scanned and as often as scanned; within a run it only grows at
\* its end; the file written holds exactly it.
C10_KeptIsFilteredScan ==
    /\ [](/\ merged_kept = SelectSeq(scanned, PassesFilters)
          /\ pc = "done" => file.content = JsonDump(merged_kept))
    /\ [][run' = run => IsPrefix(merged_kept, merged_kept')]_vars

\* C10's case: a run over two pages or more has written a pull request number
\* twice
C10_Witness ==
    /\ pc = "done"
    /\ pages_scanned >= 2
    /\ \E i, j \in 1..Len(file.content) :
          i < j /\ file.content[i][1] = file.content[j][1]

\* C5: without a token the script exits with status 2, having sent no request
\* and left the file alone; status 2 comes from nothing else, so never after a
\* response.
C5_NoTokenExitsTwo ==
    /\ [](/\ token \in {"<unset>", ""} =>
               /\ pc \in {"start", "exit"}
               /\ pc = "exit" => exit_status = 2
               /\ reqlog = << >> /\ attempts = 0 /\ resp = NoResp
               /\ file = NoFile
          /\ exit_status = 2 => token \in {"<unset>", ""})
    /\ [][(pc = "start" /\ token \in {"<unset>", ""} /\ run' = run) =>
             (pc' = "exit" /\ exit_status' = 2)]_vars

\* C5's case: the token is the empty text and the script has exited with 2
C5_Witness == token = "" /\ pc = "exit" /\ exit_status = 2

\* what args.out held when this run started
FileAtStart == IF run = 1 THEN NoFile ELSE first.file

\* C4: a response returned with a status outside 200..299 makes the script exit
\* with status 1 at once: no request follows, and the file is as it was when the
\* run started, whatever the earlier pages gave.
C4_HttpErrorExitsOne ==
    /\ [][(pc = "resp" /\ (resp.status < 200 \/ resp.status > 299)) =>
             /\ pc' = "exit" /\ exit_status' = 1
             /\ file' = file /\ reqlog' = reqlog /\ attempts' = attempts]_vars
    /\ [][(pc = "exit" /\ run' = run) => UNCHANGED vars]_vars
    /\ [](pc = "exit" => file = FileAtStart)

\* C4's case: the second page answered 404 after the first page contributed a
\* record, and the script has exited with 1
C4_Witness ==
    /\ pc = "exit" /\ exit_status = 1
    /\ resp.status = 404
    /\ Len(merged_kept) >= 1
    /\ Len(reqlog) = 2

\* the final response of the remote for u, for a URL it serves
FinalLink(u) == next_link(HeaderGet(remote[u].link))

\* C8: the first session.get carries the original parameters, every later one
\* none and goes to the next link of the response before it; url changes only
\* when such a link is followed.
C8_ParamsOnlyFirst ==
    /\ [](/\ Len(reqlog) >= 1 => reqlog[1] = <<BaseUrl, Params>>
          /\ \A i \in 2..Len(reqlog) :
                /\ reqlog[i][2] = None
                /\ reqlog[i - 1][1] \in DOMAIN remote
                /\ reqlog[i][1] = FinalLink(reqlog[i - 1][1]))
    /\ [][(url' # url /\ run' = run) =>
             \/ pc = "start" /\ url' = BaseUrl /\ params' = Params
             \/ /\ pc = "resp" /\ pc' = "get"
                /\ url' = next_link(HeaderGet(resp.link))
                /\ params' = None]_vars

\* C8's case: a second request has been made, to another URL than the first
C8_Witness ==
    /\ Len(reqlog) >= 2
    /\ reqlog[2][1] # BaseUrl
    /\ pc = "send"

\* C7: the run repeated with the same arguments against the same remote ends
\* with the same exit status, the same requests and the same file as the first.
C7_RerunSameOutput ==
    (run = 2 /\ Terminated) =>
        /\ exit_status = first.status
        /\ reqlog = first.log
        /\ file = first.file

\* C7's case: the repeated run has written a file with a record in it after
\* two requests
C7_Witness ==
    /\ run = 2 /\ pc = "done"
    /\ Len(file.content) >= 1
    /\ Len(reqlog) >= 2


\* C3 as stated: a request is attempted at most 5 times in total, and five
\* consecutive 503 answers exhaust the retries, so that session.get returns
\* the 503.
C3_AtMostFiveAttempts ==
    /\ attempts <= 5
    /\ (/\ pc = "resp"
        /\ url \in DOMAIN remote
        /\ remote[url].fails = 5
        /\ remote[url].failStatus = 503) => resp.status = 503

\* C3 amended: a request is attempted at most RetryTotal + 1 = 6 times (the
\* first attempt and 5 retries); session.get returns a forcelist status only
\* after the sixth attempt, and the script then exits with status 1; up to 5
\* consecutive failures are absorbed and the remote's final answer is returned.
C3_SixAttempts ==
    /\ [](/\ attempts <= RetryTotal + 1
          /\ (pc = "resp" /\ resp.status \in {429, 500, 502, 503, 504}) =>
                attempts = RetryTotal + 1
          /\ (pc = "resp" /\ url \in DOMAIN remote /\ remote[url].fails <= RetryTotal) =>
                /\ resp.status = remote[url].status
                /\ attempts = remote[url].fails + 1)
    /\ [][(pc = "resp" /\ resp.status \in {429, 500, 502, 503, 504}) =>
             (pc' = "exit" /\ exit_status' = 1)]_vars

\* C3's case: six 503 answers in a row, and the script has exited with 1
C3_Witness ==
    /\ pc = "exit" /\ exit_status = 1
    /\ attempts = 6
    /\ resp.status = 503

\* the URL of the first entry whose relation is next, None when there is none
RECURSIVE RefNext(_)
RefNext(es) ==
    IF es = << >> THEN None
    ELSE IF Head(es).rel = RelNext THEN Head(es).url
    ELSE RefNext(Tail(es))

\* C9: nxt, read from the response's Link header, is the URL of the header's
\* first entry whose relation is next, and None when the header is absent,
\* empty or has entries of other relations only.
C9_NextLinkFirstNextEntry ==
    pc \in {"write", "get"} => nxt = RefNext(resp.entries)

\* the response session.get returns for u: the remote's answer to the last
\* attempt the Retry allows
Returned(u) == Answer(u, IF u \in DOMAIN remote /\ remote[u].fails <= RetryTotal
                          THEN remote[u].fails ELSE RetryTotal)

\* following the next links from u reaches, within k further pages, a request
\* that cannot be sent or a response that is not 200, has no record or has no
\* next link
RECURSIVE ChainEnds(_, _)
ChainEnds(u, k) ==
    IF ~HasSchema(u) THEN TRUE
    ELSE LET r == Returned(u)
             n == next_link(HeaderGet(r.link))
         IN  IF r.status # 200 \/ r.prs = << >> \/ n = None \/ n = << >> THEN TRUE
             ELSE k > 0 /\ ChainEnds(n, k - 1)

\* C2 as stated: whatever the remote serves, the run ends.
C2_AlwaysTerminates == <>Terminated

\* C2 amended: the run ends whenever the chain of next links from the first
\* URL reaches a response that is not 200, has no record or has no next link
\* (or a link that cannot be requested); the loop stops at the first such
\* response.
C2_TerminatesWhenChainEnds ==
    /\ ChainEnds(BaseUrl, NumUrls + 1) => <>Terminated
    /\ [][(pc = "resp" /\ run' = run /\
           (resp.status # 200 \/ resp.prs = << >>
              \/ next_link(HeaderGet(resp.link)) \in {None, << >>})) =>
             (pc' \in {"write", "exit"} /\ reqlog' = reqlog)]_vars

\* C2's case: a run over two pages or more ended at a page without records
\* that still had a next link
C2_Witness ==
    /\ pc = "done"
    /\ pages_scanned >= 2
    /\ resp.prs = << >>
    /\ nxt \notin {None, << >>}

=============================================================================
